---------------------------- MODULE Spec2Model ----------------------------
(***************************************************************************)
(* A model of co2_stats.py: rows of CO2 statistics held in an immutable    *)
(* singly linked list (RLNode / None), the CSV loader read_csv_lines, the  *)
(* predicate filter, listlen and the seven queries answer_1 .. answer_7.   *)
(*                                                                         *)
(* Python values are tagged records.  None is the one value None, whether  *)
(* it stands for a missing emission, the empty linked list or a query's    *)
(* "no result".  The floats of the model are 0, 5e-10, 1e-9 and 2e-9, held *)
(* as multiples of 5e-10 (field v counts the multiples), so that the 1e-9  *)
(* tolerance of the float equality is 2 and values both inside and on the  *)
(* edge of the tolerance exist.  On these values the order and the         *)
(* tolerance test of Python's floats agree with those of the multiples.    *)
(***************************************************************************)
EXTENDS Integers, Sequences, FiniteSets

VARIABLES
    csvfile,    \* read_csv_lines: the lines of the file, header first
    pos,        \* read_csv_lines: number of lines the csv reader has yielded
    head,       \* read_csv_lines: the local variable head
    pc,         \* where the program is
    ll,         \* the linked list the operations are applied to
    call,       \* the last call made on ll
    result,     \* outcome of that call: a returned value or a raised exception
    again,      \* outcome of filtering the returned list with the same predicate
    count       \* listlen of the returned list

vars == <<csvfile, pos, head, pc, ll, call, result, again, count>>

---------------------------------------------------------------------------
(* Bounds of the model *)

MaxLines == 3      \* data lines of a csv file (SpecLoad)
MaxLen   == 3      \* rows of a filtered collection (Spec)
MaxRows  == 3      \* rows of a queried collection (SpecQuery)

---------------------------------------------------------------------------
(* Python values *)

None     == [t |-> "NoneType"]
PyStr(s)   == [t |-> "str", v |-> s]
PyInt(n)   == [t |-> "int", v |-> n]
PyBool(n)  == [t |-> "bool", v |-> n]      \* True is 1, False is 0
PyFloat(u) == [t |-> "float", v |-> u]     \* u multiples of 5e-10

Tolerance   == 2              \* 1e-9 in multiples of 5e-10
UnitsPerOne == 2000000000     \* float(1) in multiples of 5e-10

\* float(x) of an int, a bool or a float
ToFloat(x) == IF x.t = "float" THEN x.v ELSE x.v * UnitsPerOne

Abs(n) == IF n < 0 THEN -n ELSE n

\* isinstance(value, T): bool is a subclass of int
IsInstanceStr(value)    == value.t = "str"
IsInstanceInt(value)    == value.t \in {"int", "bool"}
IsInstanceNumber(value) == value.t \in {"int", "bool", "float"}

Return(v)  == [t |-> "return", v |-> v]
Raise(exc) == [t |-> "raise", exc |-> exc]

NoCall == [op |-> "none"]

---------------------------------------------------------------------------
(* Row, RLNode *)

EmissionFields ==
    { "electricity_and_heat_co2_emissions",
      "electricity_and_heat_co2_emissions_per_capita",
      "energy_co2_emissions",
      "energy_co2_emissions_per_capita",
      "total_co2_emissions_excluding_lucf",
      "total_co2_emissions_excluding_lucf_per_capita" }

FieldName == {"name", "year"} \cup EmissionFields

CompType == {"less_than", "equal", "greater_than"}

Row(name, year, e1, e2, e3, e4, e5, e6) ==
    [ name |-> name,
      year |-> year,
      electricity_and_heat_co2_emissions |-> e1,
      electricity_and_heat_co2_emissions_per_capita |-> e2,
      energy_co2_emissions |-> e3,
      energy_co2_emissions_per_capita |-> e4,
      total_co2_emissions_excluding_lucf |-> e5,
      total_co2_emissions_excluding_lucf_per_capita |-> e6 ]

RLNode(first, rest) == [first |-> first, rest |-> rest]

\* the linked list whose traversal from the head is the sequence s
RECURSIVE FromSeq(_)
FromSeq(s) == IF s = <<>> THEN None ELSE RLNode(Head(s), FromSeq(Tail(s)))

\* the traversal of a linked list from its head
RECURSIVE ToSeq(_)
ToSeq(l) == IF l = None THEN <<>> ELSE <<l.first>> \o ToSeq(l.rest)

SeqsUpTo(S, n) == UNION {[1..k -> S] : k \in 0..n}

Reverse(s) == [i \in 1..Len(s) |-> s[Len(s) + 1 - i]]

---------------------------------------------------------------------------
(* array_to_row, read_csv_lines *)

\* float(s) for the strings the model's files hold
FloatOfString(s) ==
    CASE s = "0"      -> 0
      [] s = "5e-10"  -> 1
      [] s = "1e-9"   -> 2
      [] s = "2e-9"   -> 4

\* int(s) for the strings the model's files hold
IntOfString(s) ==
    CASE s = "1994" -> 1994
      [] s = "1996" -> 1996
      [] s = "1998" -> 1998

parse_num(s) == IF s = "" THEN None ELSE PyFloat(FloatOfString(s))

array_to_row(fields) ==
    Row(fields[1], IntOfString(fields[2]),
        parse_num(fields[3]), parse_num(fields[4]), parse_num(fields[5]),
        parse_num(fields[6]), parse_num(fields[7]), parse_num(fields[8]))

HeaderLine ==
    << "name", "year",
       "electricity_and_heat_co2_emissions",
       "electricity_and_heat_co2_emissions_per_capita",
       "energy_co2_emissions",
       "energy_co2_emissions_per_capita",
       "total_co2_emissions_excluding_lucf",
       "total_co2_emissions_excluding_lucf_per_capita" >>

\* the data lines a file of the model is made of
DataLines ==
    { <<"Lithuania", "1994", "0", "1e-9", "", "5e-10", "", "2e-9">>,
      <<"Lithuania", "1996", "", "", "", "", "", "">>,
      <<"Lithuania", "1998", "2e-9", "", "1e-9", "", "0", "5e-10">>,
      <<"Mexico", "1996", "5e-10", "0", "", "1e-9", "2e-9", "">> }

CsvFiles == {<<HeaderLine>> \o d : d \in SeqsUpTo(DataLines, MaxLines)}

InitLoad ==
    /\ csvfile \in CsvFiles
    /\ pos = 0
    /\ head = None
    /\ pc = "open"
    /\ ll = None
    /\ call = NoCall
    /\ result = None
    /\ again = None
    /\ count = 0

\* next(lines): the header is read and dropped
SkipHeader ==
    /\ pc = "open"
    /\ pos' = 1
    /\ pc' = "loop"
    /\ UNCHANGED <<csvfile, head, ll, call, result, again, count>>

\* ReadLine with the new node put at the end of the list instead of the head
ReadLine_append ==
    /\ pc = "loop"
    /\ pos < Len(csvfile)
    /\ LET new_row == array_to_row(csvfile[pos + 1])
       IN  head' = FromSeq(Append(ToSeq(head), new_row))
    /\ pos' = pos + 1
    /\ UNCHANGED <<csvfile, pc, ll, call, result, again, count>>

\* one iteration of "for line in lines"
ReadLine ==
    /\ pc = "loop"
    /\ pos < Len(csvfile)
    /\ LET new_row == array_to_row(csvfile[pos + 1])
       IN  head' = RLNode(new_row, head)
    /\ pos' = pos + 1
    /\ UNCHANGED <<csvfile, pc, ll, call, result, again, count>>

\* the reader is exhausted: return head
ReturnHead ==
    /\ pc = "loop"
    /\ pos = Len(csvfile)
    /\ ll' = head
    /\ pc' = "loaded"
    /\ UNCHANGED <<csvfile, pos, head, call, result, again, count>>

\* listlen
RECURSIVE listlen(_)
listlen(l) == IF l = None THEN 0 ELSE 1 + listlen(l.rest)

\* Tests.test_listlen_sample_file: listlen of the loaded list
CallListlenLoaded ==
    /\ pc = "loaded"
    /\ count' = listlen(ll)
    /\ call' = [op |-> "listlen"]
    /\ pc' = "counted"
    /\ UNCHANGED <<csvfile, pos, head, ll, result, again>>

NextLoad == SkipHeader \/ ReadLine \/ ReturnHead \/ CallListlenLoaded

SpecLoad == InitLoad /\ [][NextLoad]_vars

---------------------------------------------------------------------------
(* filter *)

\* filter_raises with the comparator of the name branch left unchecked
filter_raises_name_any_comp(field, comp, value) ==
    IF field = "name"
    THEN ~IsInstanceStr(value)
    ELSE IF field = "year"
    THEN comp \notin {"less_than", "equal", "greater_than"}
            \/ ~IsInstanceInt(value)
    ELSE comp \notin {"less_than", "equal", "greater_than"}
            \/ ~IsInstanceNumber(value)

\* the checks at the top of filter: TRUE when they raise ValueError
filter_raises(field, comp, value) ==
    IF field = "name"
    THEN comp # "equal" \/ ~IsInstanceStr(value)
    ELSE IF field = "year"
    THEN comp \notin {"less_than", "equal", "greater_than"}
            \/ ~IsInstanceInt(value)
    ELSE comp \notin {"less_than", "equal", "greater_than"}
            \/ ~IsInstanceNumber(value)

\* keep_row with greater_than written as >=
keep_row_ge(r, field, comp, value) ==
    LET v == r[field]
    IN  IF field = "name"
        THEN PyStr(v) = value
        ELSE IF field = "year"
        THEN IF comp = "less_than" THEN v < value.v
             ELSE IF comp = "equal" THEN v = value.v
             ELSE v >= value.v
        ELSE IF v = None
        THEN FALSE
        ELSE LET vnum   == ToFloat(v)
                 target == ToFloat(value)
             IN  IF comp = "less_than" THEN vnum < target
                 ELSE IF comp = "greater_than" THEN vnum >= target
                 ELSE Abs(vnum - target) < Tolerance

\* keep_row with a missing emission read as 0.0 instead of excluded
keep_row_none_as_zero(r, field, comp, value) ==
    LET v == r[field]
    IN  IF field = "name"
        THEN PyStr(v) = value
        ELSE IF field = "year"
        THEN IF comp = "less_than" THEN v < value.v
             ELSE IF comp = "equal" THEN v = value.v
             ELSE v > value.v
        ELSE LET vnum   == IF v = None THEN 0 ELSE ToFloat(v)
                 target == ToFloat(value)
             IN  IF comp = "less_than" THEN vnum < target
                 ELSE IF comp = "greater_than" THEN vnum > target
                 ELSE Abs(vnum - target) < Tolerance

\* keep_row with the tolerance test written as <=
keep_row_tolerance_le(r, field, comp, value) ==
    LET v == r[field]
    IN  IF field = "name"
        THEN PyStr(v) = value
        ELSE IF field = "year"
        THEN IF comp = "less_than" THEN v < value.v
             ELSE IF comp = "equal" THEN v = value.v
             ELSE v > value.v
        ELSE IF v = None
        THEN FALSE
        ELSE LET vnum   == ToFloat(v)
                 target == ToFloat(value)
             IN  IF comp = "less_than" THEN vnum < target
                 ELSE IF comp = "greater_than" THEN vnum > target
                 ELSE Abs(vnum - target) <= Tolerance

\* keep_row, the closure of filter, for a predicate that passed the checks
keep_row(r, field, comp, value) ==
    LET v == r[field]
    IN  IF field = "name"
        THEN PyStr(v) = value
        ELSE IF field = "year"
        THEN IF comp = "less_than" THEN v < value.v
             ELSE IF comp = "equal" THEN v = value.v
             ELSE v > value.v
        ELSE IF v = None
        THEN FALSE
        ELSE LET vnum   == ToFloat(v)
                 target == ToFloat(value)
             IN  IF comp = "less_than" THEN vnum < target
                 ELSE IF comp = "greater_than" THEN vnum > target
                 ELSE Abs(vnum - target) < Tolerance

\* filter_match returning the unfiltered rest r when the first row is dropped
RECURSIVE filter_match_rest_unfiltered(_, _, _, _)
filter_match_rest_unfiltered(l, field, comp, value) ==
    IF l = None
    THEN None
    ELSE IF keep_row(l.first, field, comp, value)
         THEN RLNode(l.first,
                     filter_match_rest_unfiltered(l.rest, field, comp, value))
         ELSE l.rest

\* the match statement of filter: the recursion over the list
RECURSIVE filter_match(_, _, _, _)
filter_match(l, field, comp, value) ==
    IF l = None
    THEN None
    ELSE LET filtered_rest == filter_match(l.rest, field, comp, value)
         IN  IF keep_row(l.first, field, comp, value)
             THEN RLNode(l.first, filtered_rest)
             ELSE filtered_rest

\* filter: the checks come first, also for the empty list
filter(l, field, comp, value) ==
    IF filter_raises(field, comp, value)
    THEN Raise("ValueError")
    ELSE Return(filter_match(l, field, comp, value))

---------------------------------------------------------------------------
(* Spec: filter and listlen applied to a collection *)

\* the rows the loader makes of the data lines
FilterRows == {array_to_row(d) : d \in DataLines}

Collections == {FromSeq(s) : s \in SeqsUpTo(FilterRows, MaxLen)}

\* comparators passed to filter: the three of CompType and one that is not
Comparators == CompType \cup {"not_equal"}

\* values passed to filter, by field; every type occurs for every field
NameValues == {PyStr("Lithuania"), PyStr("Atlantis"), PyInt(1996), None}

YearValues ==
    {PyInt(1996), PyInt(1995), PyBool(1), PyStr("1996"), PyFloat(2), None}

EmissionValues ==
    { PyFloat(1), PyFloat(2), PyInt(0), PyInt(1), PyBool(1),
      PyStr("1e-9"), None }

ValuesOf(field) ==
    IF field = "name" THEN NameValues
    ELSE IF field = "year" THEN YearValues
    ELSE EmissionValues

Init ==
    /\ csvfile = <<HeaderLine>>
    /\ pos = 0
    /\ head = None
    /\ pc = "ready"
    /\ ll \in Collections
    /\ call = NoCall
    /\ result = None
    /\ again = None
    /\ count = 0

\* filter(ll, field, comp, value)
CallFilter ==
    /\ pc = "ready"
    /\ \E field \in FieldName, comp \in Comparators :
         \E value \in ValuesOf(field) :
            /\ call' = [op |-> "filter", field |-> field, comp |-> comp,
                        value |-> value]
            /\ result' = filter(ll, field, comp, value)
    /\ pc' = "filtered"
    /\ UNCHANGED <<csvfile, pos, head, ll, again, count>>

\* filter(filter(ll, P), P): the returned list filtered with the same predicate
CallFilterAgain ==
    /\ pc = "filtered"
    /\ result.t = "return"
    /\ again' = filter(result.v, call.field, call.comp, call.value)
    /\ pc' = "refiltered"
    /\ UNCHANGED <<csvfile, pos, head, ll, call, result, count>>

\* listlen(filter(ll, P))
CallListlen ==
    /\ pc = "filtered"
    /\ result.t = "return"
    /\ count' = listlen(result.v)
    /\ pc' = "counted"
    /\ UNCHANGED <<csvfile, pos, head, ll, call, result, again>>

Next == CallFilter \/ CallFilterAgain \/ CallListlen

Spec == Init /\ [][Next]_vars

---------------------------------------------------------------------------
(* answer_1 .. answer_7 *)

DeltaYears == 30      \* the exponent 1 / 30 of answer_7
Horizon    == 50      \* the exponent 50 of answer_7

RECURSIVE GCD(_, _)
GCD(a, b) == IF b = 0 THEN a ELSE GCD(b, a % b)

\* the float a / b as the exact fraction in lowest terms (b is not 0)
Quotient(a, b) ==
    LET g == GCD(Abs(a), Abs(b))
    IN  [t |-> "float", num |-> a \div g, den |-> b \div g]

\* x / y of two emission values: None is no operand, 0.0 is no divisor
TrueDiv(x, y) ==
    IF x = None \/ y = None
    THEN Raise("TypeError")
    ELSE IF y.v = 0
    THEN Raise("ZeroDivisionError")
    ELSE Return(Quotient(x.v, y.v))

\* e2020 * ((e2020 / e1990) ** (1 / 30)) ** 50, kept as the expression
Projection(e2020, ratio) ==
    [t |-> "float", factor |-> e2020.v, base |-> ratio,
     root |-> DeltaYears, power |-> Horizon]

Per_capita == "total_co2_emissions_excluding_lucf_per_capita"

answer_1(rows) ==
    LET rows_2000 == filter(rows, "year", "equal", PyInt(2000)).v
    IN  Return(PyInt(listlen(rows_2000)))

answer_2(rows) == filter(rows, "name", "equal", PyStr("Mexico"))

answer_3(rows) ==
    LET us      == filter(rows, "name", "equal", PyStr("United States")).v
        us_1990 == filter(us, "year", "equal", PyInt(1990)).v
    IN  IF us_1990 = None
        THEN Return(None)
        ELSE LET us_value ==
                     us_1990.first.total_co2_emissions_excluding_lucf_per_capita
                 all_1990 == filter(rows, "year", "equal", PyInt(1990)).v
             IN  filter(all_1990, Per_capita, "greater_than", us_value)

answer_4(rows) ==
    LET us      == filter(rows, "name", "equal", PyStr("United States")).v
        us_2020 == filter(us, "year", "equal", PyInt(2020)).v
    IN  IF us_2020 = None
        THEN Return(None)
        ELSE LET us_value ==
                     us_2020.first.total_co2_emissions_excluding_lucf_per_capita
                 all_2020 == filter(rows, "year", "equal", PyInt(2020)).v
             IN  filter(all_2020, Per_capita, "greater_than", us_value)

answer_5(rows) ==
    LET lux      == filter(rows, "name", "equal", PyStr("Luxembourg")).v
        lux_2014 == filter(lux, "year", "equal", PyInt(2014)).v
    IN  IF lux_2014 = None
        THEN Return(None)
        ELSE LET r == lux_2014.first
             IN  TrueDiv(r.total_co2_emissions_excluding_lucf,
                         r.total_co2_emissions_excluding_lucf_per_capita)

answer_6(rows) ==
    LET china == filter(rows, "name", "equal", PyStr("China")).v
        c1990 == filter(china, "year", "equal", PyInt(1990)).v
        c2020 == filter(china, "year", "equal", PyInt(2020)).v
    IN  IF c1990 = None \/ c2020 = None
        THEN Return(None)
        ELSE LET e1990 == c1990.first.electricity_and_heat_co2_emissions
                 e2020 == c2020.first.electricity_and_heat_co2_emissions
             IN  TrueDiv(e2020, e1990)

answer_7(rows) ==
    LET china == filter(rows, "name", "equal", PyStr("China")).v
        c1990 == filter(china, "year", "equal", PyInt(1990)).v
        c2020 == filter(china, "year", "equal", PyInt(2020)).v
    IN  IF c1990 = None \/ c2020 = None
        THEN Return(None)
        ELSE LET e1990 == c1990.first.electricity_and_heat_co2_emissions
                 e2020 == c2020.first.electricity_and_heat_co2_emissions
                 ratio == TrueDiv(e2020, e1990)
             IN  IF ratio.t = "raise"
                 THEN ratio
                 ELSE Return(Projection(e2020, ratio.v))

---------------------------------------------------------------------------
(* SpecQuery: the seven queries applied to a collection *)

\* a row with the three emissions the queries read: electricity and heat,
\* total, total per capita; the other three are missing
QRow(name, year, elec, total, percap) ==
    Row(name, year, elec, None, None, None, total, percap)

QueryRows ==
    { QRow("United States", 1990, None, PyFloat(4), PyFloat(1)),
      QRow("United States", 1990, None, PyFloat(4), None),
      QRow("United States", 2020, None, PyFloat(4), PyFloat(1)),
      QRow("United States", 2020, None, None, None),
      QRow("Qatar", 1990, PyFloat(1), PyFloat(1), PyFloat(2)),
      QRow("Qatar", 1990, None, PyFloat(1), PyFloat(1)),
      QRow("Qatar", 2020, PyFloat(1), PyFloat(1), PyFloat(2)),
      QRow("Qatar", 2000, None, None, None),
      QRow("Luxembourg", 2014, None, PyFloat(4), PyFloat(2)),
      QRow("Luxembourg", 2014, None, PyFloat(4), PyFloat(0)),
      QRow("Luxembourg", 2014, None, PyFloat(4), None),
      QRow("Luxembourg", 2014, None, None, PyFloat(2)),
      QRow("China", 1990, PyFloat(1), None, None),
      QRow("China", 1990, PyFloat(0), None, None),
      QRow("China", 1990, None, None, None),
      QRow("China", 2020, PyFloat(4), None, None),
      QRow("China", 2020, None, None, None),
      QRow("Mexico", 2000, PyFloat(2), PyFloat(2), PyFloat(1)) }

QueryCollections == {FromSeq(s) : s \in SeqsUpTo(QueryRows, MaxRows)}

InitQuery ==
    /\ csvfile = <<HeaderLine>>
    /\ pos = 0
    /\ head = None
    /\ pc = "ready"
    /\ ll \in QueryCollections
    /\ call = NoCall
    /\ result = None
    /\ again = None
    /\ count = 0

\* result = answer_1(ll)
Answer1 ==
    /\ pc = "ready"
    /\ call' = [op |-> "answer_1"]
    /\ result' = answer_1(ll)
    /\ pc' = "answered"
    /\ UNCHANGED <<csvfile, pos, head, ll, again, count>>

\* result = answer_2(ll)
Answer2 ==
    /\ pc = "ready"
    /\ call' = [op |-> "answer_2"]
    /\ result' = answer_2(ll)
    /\ pc' = "answered"
    /\ UNCHANGED <<csvfile, pos, head, ll, again, count>>

\* result = answer_3(ll)
Answer3 ==
    /\ pc = "ready"
    /\ call' = [op |-> "answer_3"]
    /\ result' = answer_3(ll)
    /\ pc' = "answered"
    /\ UNCHANGED <<csvfile, pos, head, ll, again, count>>

\* result = answer_4(ll)
Answer4 ==
    /\ pc = "ready"
    /\ call' = [op |-> "answer_4"]
    /\ result' = answer_4(ll)
    /\ pc' = "answered"
    /\ UNCHANGED <<csvfile, pos, head, ll, again, count>>

\* result = answer_5(ll)
Answer5 ==
    /\ pc = "ready"
    /\ call' = [op |-> "answer_5"]
    /\ result' = answer_5(ll)
    /\ pc' = "answered"
    /\ UNCHANGED <<csvfile, pos, head, ll, again, count>>

\* result = answer_6(ll)
Answer6 ==
    /\ pc = "ready"
    /\ call' = [op |-> "answer_6"]
    /\ result' = answer_6(ll)
    /\ pc' = "answered"
    /\ UNCHANGED <<csvfile, pos, head, ll, again, count>>

\* result = answer_7(ll)
Answer7 ==
    /\ pc = "ready"
    /\ call' = [op |-> "answer_7"]
    /\ result' = answer_7(ll)
    /\ pc' = "answered"
    /\ UNCHANGED <<csvfile, pos, head, ll, again, count>>

NextQuery ==
    \/ Answer1
    \/ Answer2
    \/ Answer3
    \/ Answer4
    \/ Answer5
    \/ Answer6
    \/ Answer7

SpecQuery == InitQuery /\ [][NextQuery]_vars

---------------------------------------------------------------------------
(* What the predicate of a call means, stated on the rows themselves *)

\* the three validation rules of a predicate
ValidPredicate(field, comp, value) ==
    /\ field = "name" => (comp = "equal" /\ IsInstanceStr(value))
    /\ field = "year" => (comp \in CompType /\ IsInstanceInt(value))
    /\ field \in EmissionFields =>
            (comp \in CompType /\ IsInstanceNumber(value))

\* the absolute difference of a present emission x and value is below 1e-9
WithinTolerance(x, value) ==
    LET d == x.v - ToFloat(value)
    IN  -Tolerance < d /\ d < Tolerance

Ordered(a, comp, b) ==
    CASE comp = "less_than"    -> a < b
      [] comp = "greater_than" -> a > b
      [] comp = "equal"        -> a = b

\* row r satisfies the valid predicate (field, comp, value)
Satisfies(r, field, comp, value) ==
    CASE field = "name" -> r.name = value.v
      [] field = "year" -> Ordered(r.year, comp, value.v)
      [] OTHER ->
            /\ r[field] # None
            /\ IF comp = "equal"
               THEN WithinTolerance(r[field], value)
               ELSE Ordered(r[field].v, comp, ToFloat(value))

Returned == pc = "filtered" /\ result.t = "return"

---------------------------------------------------------------------------
(* Claims on filter and listlen, checked under Spec *)

\* C1: filter with a valid predicate returns the subsequence of the input
\* made of the rows that satisfy the predicate: every occurrence of every
\* such row, no other row, in the order of the input.
C1_FilterIsMatchingSubsequence ==
    Returned =>
        ToSeq(result.v) =
            SelectSeq(ToSeq(ll),
                      LAMBDA r : Satisfies(r, call.field, call.comp, call.value))

\* a call that kept two occurrences of one row and dropped the first row of
\* a three-row input
C1_Witness ==
    /\ Returned
    /\ Len(ToSeq(result.v)) = 2
    /\ ToSeq(result.v)[1] = ToSeq(result.v)[2]
    /\ Len(ToSeq(ll)) = 3
    /\ ToSeq(ll)[1] # ToSeq(result.v)[1]

\* C2: on every collection, the empty one included, a call that breaks a
\* validation rule raises ValueError and returns nothing: name with a
\* comparator other than equal or a value that is no string, year with a
\* value that is no integer, an emission field with a value that is no
\* number, any field with a comparator outside CompType.  A call that keeps
\* the rules does not raise.
C2_InvalidPredicateRaises ==
    pc = "filtered" =>
        LET field == call.field
            comp  == call.comp
            value == call.value
            raised == result = Raise("ValueError")
        IN  /\ (field = "name" /\ (comp # "equal" \/ ~IsInstanceStr(value)))
                    => raised
            /\ (field = "year" /\ ~IsInstanceInt(value)) => raised
            /\ (field \in EmissionFields /\ ~IsInstanceNumber(value))
                    => raised
            /\ comp \notin CompType => raised
            /\ ValidPredicate(field, comp, value) => result.t = "return"

\* year compared with the string "1996" on the empty collection
C2_Witness ==
    /\ pc = "filtered"
    /\ ll = None
    /\ call.field = "year"
    /\ call.comp = "equal"
    /\ call.value = PyStr("1996")
    /\ result = Raise("ValueError")

\* C3: a row whose value for the filtered emission field is missing is in
\* no result, whatever the comparator and the number compared with.
C3_MissingValueExcluded ==
    (Returned /\ call.field \in EmissionFields) =>
        \A i \in 1..Len(ToSeq(result.v)) :
            ToSeq(result.v)[i][call.field] # None

\* a less_than call on a collection with a row that misses the field, which
\* kept another row
C3_Witness ==
    /\ Returned
    /\ call.field \in EmissionFields
    /\ call.comp = "less_than"
    /\ \E i \in 1..Len(ToSeq(ll)) : ToSeq(ll)[i][call.field] = None
    /\ result.v # None

\* the rows of the collection whose field equals value: exactly for name and
\* year, present and within the tolerance for an emission field
EqualPositions(l, field, value) ==
    { i \in 1..Len(ToSeq(l)) :
        CASE field = "name" -> ToSeq(l)[i].name = value.v
          [] field = "year" -> ToSeq(l)[i].year = value.v
          [] OTHER -> /\ ToSeq(l)[i][field] # None
                      /\ WithinTolerance(ToSeq(l)[i][field], value) }

\* C4: listlen of an equal filter is the number of rows whose field equals
\* the value.
C4_CountConsistency ==
    (pc = "counted" /\ call.comp = "equal") =>
        count = Cardinality(EqualPositions(ll, call.field, call.value))

\* an emission equality that counted two rows although the collection also
\* holds a row exactly on the edge of the tolerance
C4_Witness ==
    /\ pc = "counted"
    /\ call.comp = "equal"
    /\ call.field \in EmissionFields
    /\ count = 2
    /\ \E i \in 1..Len(ToSeq(ll)) :
            /\ ToSeq(ll)[i][call.field] # None
            /\ Abs(ToSeq(ll)[i][call.field].v - ToFloat(call.value)) = Tolerance

\* C5: filtering the result of a filter with the same predicate returns the
\* same list.
C5_Idempotent ==
    pc = "refiltered" => again = result

\* a second filtering of a list that the first one shortened and left
\* non-empty
C5_Witness ==
    /\ pc = "refiltered"
    /\ result.v # None
    /\ result.v # ll
    /\ again.t = "return"

---------------------------------------------------------------------------
(* Claim on read_csv_lines, checked under SpecLoad *)

\* the rows of the data lines of the file, in file order
FileRows == [i \in 1..(Len(csvfile) - 1) |-> array_to_row(csvfile[i + 1])]

\* C6: the loaded list, traversed from its head, is the data rows of the
\* file in reverse order, and its length is the number of data lines.
C6_LoadReversesFile ==
    /\ pc \in {"loaded", "counted"} => ToSeq(ll) = Reverse(FileRows)
    /\ pc = "counted" => count = Len(csvfile) - 1

\* a file of three different data rows, loaded and counted
C6_Witness ==
    /\ pc = "counted"
    /\ count = 3
    /\ Cardinality({FileRows[i] : i \in 1..3}) = 3
    /\ ToSeq(ll)[1] = FileRows[3]

---------------------------------------------------------------------------
(* Claims on the queries, checked under SpecQuery *)

\* the rows of l with the given name and year, in the order of l
RowsOf(l, name, year) ==
    SelectSeq(ToSeq(l), LAMBDA r : r.name = name /\ r.year = year)

\* the rows of l of the given year whose per capita total is present and
\* strictly greater than the present value V, in the order of l
RowsAbove(l, year, V) ==
    SelectSeq(ToSeq(l),
              LAMBDA r : /\ r.year = year
                         /\ r[Per_capita] # None
                         /\ r[Per_capita].v > V.v)

\* the outlier query of the given year answered as C7 says
OutlierAnswer(year) ==
    LET us == RowsOf(ll, "United States", year)
    IN  IF us = <<>>
        THEN result = Return(None)
        ELSE LET V == us[1][Per_capita]
             IN  /\ result.t = "return"
                 /\ V # None => result.v = FromSeq(RowsAbove(ll, year, V))

\* C7: answer_3 (1990) and answer_4 (2020) return "no result" when the
\* collection has no United States row of the year, and otherwise return the
\* rows of the year whose per capita total is present and strictly greater
\* than that of the first United States row of the year, in collection order.
C7_OutlierQuery ==
    /\ (pc = "answered" /\ call.op = "answer_3") => OutlierAnswer(1990)
    /\ (pc = "answered" /\ call.op = "answer_4") => OutlierAnswer(2020)

\* the divisor of answer_5, the per capita total of the first Luxembourg
\* row of 2014, is missing or zero
Query5DivisorFault ==
    LET lux == RowsOf(ll, "Luxembourg", 2014)
    IN  /\ lux # <<>>
        /\ lux[1][Per_capita] \in {None, PyFloat(0)}

\* C8: on well-formed rows no query other than answer_5 raises, and
\* answer_5 raises only when its divisor is missing or zero.
C8_OnlyQuery5Faults ==
    (pc = "answered" /\ result.t = "raise") =>
        (call.op = "answer_5" /\ Query5DivisorFault)

\* the record a query looks up is in the collection
Found(op) ==
    CASE op = "answer_1" -> \E i \in 1..Len(ToSeq(ll)) : ToSeq(ll)[i].year = 2000
      [] op = "answer_2" ->
            \E i \in 1..Len(ToSeq(ll)) : ToSeq(ll)[i].name = "Mexico"
      [] op = "answer_3" -> RowsOf(ll, "United States", 1990) # <<>>
      [] op = "answer_4" -> RowsOf(ll, "United States", 2020) # <<>>
      [] op = "answer_5" -> RowsOf(ll, "Luxembourg", 2014) # <<>>
      [] op \in {"answer_6", "answer_7"} ->
            /\ RowsOf(ll, "China", 1990) # <<>>
            /\ RowsOf(ll, "China", 2020) # <<>>

\* what a query returns when the record it looks up is not found
NotFoundOutcome(op) ==
    IF op = "answer_1" THEN Return(PyInt(0)) ELSE Return(None)

\* C9: every query returns its not-found outcome, a value and no exception,
\* when the record is not found, and an outcome different from it when the
\* record is found.
C9_NotFoundIsDistinct ==
    pc = "answered" =>
        /\ ~Found(call.op) => result = NotFoundOutcome(call.op)
        /\ Found(call.op) => result # NotFoundOutcome(call.op)

\* C10: answer_5 returns "no result" without a Luxembourg row of 2014,
\* raises when the divisor of the first such row is missing or zero, and
\* otherwise returns the quotient of its total by its per capita total.
C10_Query5Outcomes ==
    (pc = "answered" /\ call.op = "answer_5") =>
        LET lux == RowsOf(ll, "Luxembourg", 2014)
        IN  IF lux = <<>>
            THEN result = Return(None)
            ELSE IF Query5DivisorFault
            THEN result.t = "raise"
            ELSE LET total  == lux[1].total_co2_emissions_excluding_lucf
                     percap == lux[1][Per_capita]
                 IN  /\ result.t = "return"
                     /\ result.v # None
                     /\ total # None =>
                            result.v = Quotient(total.v, percap.v)

=============================================================================
